---- MODULE Spec2Model ----
(***************************************************************************)
(* menumaster REST API (src/index.js): the five CRUD route families over   *)
(* the Document Store (mongoose) and the image-attachment lifecycle over   *)
(* the Asset Store (cloudinary).  Every `await` of a handler is one step;  *)
(* several requests are in flight at once and interleave at the awaits.    *)
(*                                                                         *)
(* Strings are sequences of naturals: '' is <<>>, the public id of the     *)
(* n-th upload is <<n>> and its secure_url is <<0, n>>.  Each request      *)
(* keeps a log of the store calls it has completed, which the properties   *)
(* read; a completed call and the return of its await are one step.        *)
(***************************************************************************)
EXTENDS Naturals, Sequences, FiniteSets, TLC

\* ---- bounds -------------------------------------------------------------
\* MaxReqs: requests in flight at once.  MaxDocs: documents ever created
\* (ObjectIds are never reused).  MaxAssets: uploads that ever succeed
\* (public ids are never reused).
MaxReqs == 2
MaxDocs == 1
MaxAssets == 2

\* ---- entity kinds and schemas ------------------------------------------
Kinds == {"categories", "offers", "products", "restaurant-admins", "restaurants"}

ImageKinds == {"categories", "products", "restaurants"}

ImgField(k) == IF k = "restaurants" THEN "logo" ELSE "image"

IdField(k) == IF k = "restaurants" THEN "logoPublicId" ELSE "imagePublicId"

OtherField(k) ==
  CASE k = "offers" -> "title"
    [] k = "restaurant-admins" -> "username"
    [] OTHER -> "name"

EntityName(k) ==
  CASE k = "categories" -> "Category"
    [] k = "offers" -> "Offer"
    [] k = "products" -> "Product"
    [] k = "restaurant-admins" -> "Admin"
    [] OTHER -> "Restaurant"

NotFoundMsg(k) == [error |-> <<EntityName(k), "not found">>]

DeletedMsg(k) == [message |-> <<EntityName(k), "deleted">>]

UploadErr == [error |-> <<"upload", "failed">>]

DestroyErr == [error |-> <<"destroy", "failed">>]

DbErr == [error |-> <<"db", "failed">>]

\* ---- values -------------------------------------------------------------
EmptyStr == <<>>

Null == [null |-> TRUE]

Url(publicId) == <<0>> \o publicId

ForeignId == <<0>>

ForeignUrl == <<0, 0>>

\* Truthiness of a string, as in `if (category.imagePublicId)`.
Truthy(s) == s # EmptyStr

\* Request bodies a client may send: plain fields, or fields together with
\* client-chosen values for the two image fields.
Bodies(k) ==
  IF k \in ImageKinds
  THEN { (OtherField(k) :> 1),
         (OtherField(k) :> 2) @@ (ImgField(k) :> ForeignUrl) @@ (IdField(k) :> ForeignId) }
  ELSE { (OtherField(k) :> 1), (OtherField(k) :> 2) }

NoBody == ("none" :> 0)

VARIABLES docs, assets, nextId, nextAsset, reqs, destroyFailed

vars == <<docs, assets, nextId, nextAsset, reqs, destroyFailed>>

Reqs == 1..MaxReqs

Idle ==
  [op |-> "none", kind |-> "categories", id |-> 0, file |-> FALSE, body |-> NoBody,
   pc |-> <<>>, doc |-> Null, imageData |-> [url |-> EmptyStr, publicId |-> EmptyStr],
   status |-> 0, resp |-> Null, log |-> <<>>]

Init ==
  /\ docs = [k \in Kinds |-> <<>>]
  /\ assets = {}
  /\ nextId = 1
  /\ nextAsset = 1
  /\ reqs = [r \in Reqs |-> Idle]
  /\ destroyFailed = FALSE

\* ---- helpers ------------------------------------------------------------
Event(ev, arg, ok, hit) == [ev |-> ev, arg |-> arg, ok |-> ok, hit |-> hit]

Logged(q, e) == [q EXCEPT !.log = Append(@, e)]

\* res.status(s).json(body): the handler ends.
Respond(q, s, body) == [q EXCEPT !.status = s, !.resp = body, !.pc = <<>>]

\* The awaited call returned: go on with the statement after it.
Advance(q) == [q EXCEPT !.pc = Tail(@)]

\* Model.findById(id)
findById(k, id) == IF id \in DOMAIN docs[k] THEN docs[k][id] ELSE Null

\* { ...req.body, image: imageData.url, imagePublicId: imageData.publicId }
MergeBodyFirst(k, body, imageData) ==
  body @@ (ImgField(k) :> imageData.url) @@ (IdField(k) :> imageData.publicId)

MergeSpreadMiddle(k, body, imageData) ==
  (IdField(k) :> imageData.publicId) @@ body @@ (ImgField(k) :> imageData.url)

Merge(k, body, imageData) ==
  (ImgField(k) :> imageData.url) @@ (IdField(k) :> imageData.publicId) @@ body

\* The fields a create or an update persists.
Fields(q) ==
  IF q.kind \in ImageKinds THEN Merge(q.kind, q.body, q.imageData) ELSE q.body

\* create: upload when a file came, then save
PostPlan(k, file) ==
  IF k \in ImageKinds /\ file THEN <<"upload", "save">> ELSE <<"save">>

PutPlanUploadFirst(k, doc, file) ==
  IF file
  THEN <<"upload">> \o (IF Truthy(doc[IdField(k)]) THEN <<"destroy">> ELSE <<>>) \o <<"update">>
  ELSE <<"update">>

\* update, after the document was found
PutPlan(k, doc, file) ==
  IF file
  THEN (IF Truthy(doc[IdField(k)]) THEN <<"destroy">> ELSE <<>>) \o <<"upload", "update">>
  ELSE <<"update">>

DeletePlanNoDestroy(k, doc) == <<"remove">>

\* delete, after the document was found
DeletePlan(k, doc) ==
  (IF Truthy(doc[IdField(k)]) THEN <<"destroy">> ELSE <<>>) \o <<"remove">>

\* The first awaited call of each handler.
StartPlan(op, k, file) ==
  CASE op = "post" -> PostPlan(k, file)
    [] op = "get" -> <<"find">>
    [] op = "put" -> IF k \in ImageKinds THEN <<"find">> ELSE <<"update">>
    [] OTHER -> IF k \in ImageKinds THEN <<"find">> ELSE <<"remove">>

OnFindNoCheck(q, d) ==
  IF d = Null THEN Respond(q, 200, Null)
  ELSE CASE q.op = "get" -> Respond(q, 200, d)
         [] q.op = "put" ->
              [q EXCEPT !.doc = d,
                        !.imageData = [url |-> d[ImgField(q.kind)],
                                       publicId |-> d[IdField(q.kind)]],
                        !.pc = PutPlan(q.kind, d, q.file)]
         [] OTHER -> [q EXCEPT !.doc = d, !.pc = DeletePlan(q.kind, d)]

\* What a handler does with the result of its findById.
OnFind(q, d) ==
  IF d = Null THEN Respond(q, 404, NotFoundMsg(q.kind))
  ELSE CASE q.op = "get" -> Respond(q, 200, d)
         [] q.op = "put" ->
              [q EXCEPT !.doc = d,
                        !.imageData = [url |-> d[ImgField(q.kind)],
                                       publicId |-> d[IdField(q.kind)]],
                        !.pc = PutPlan(q.kind, d, q.file)]
         [] OTHER -> [q EXCEPT !.doc = d, !.pc = DeletePlan(q.kind, d)]

OnUploadErrorSwallowed(q) == Advance(q)

\* uploadToCloudinary rejects: the handler's catch answers 500.
OnUploadError(q) == Respond(q, 500, UploadErr)

OnDestroyErrorThrown(q) == Respond(q, 500, DestroyErr)

\* deleteFromCloudinary catches and logs: the handler goes on.
OnDestroyError(q) == Advance(q)

\* The id a handler passes to deleteFromCloudinary.
DestroyTarget(q) == q.doc[IdField(q.kind)]

\* The asset id a written document carries (none for offers and admins).
Persisted(k, d) == IF k \in ImageKinds THEN d[IdField(k)] ELSE EmptyStr

\* A handler's last step and its response are one turn of the event loop:
\* no other handler runs between them.
NoneDone == \A r \in Reqs : reqs[r].status = 0

\* ---- actions ------------------------------------------------------------
\* A request arrives and runs up to its first await.
Start(r) ==
  /\ reqs[r].op = "none"
  /\ NoneDone
  /\ \E op \in {"post", "get", "put", "delete"}, k \in Kinds :
       \E id \in (IF op = "post" THEN {0} ELSE 1..MaxDocs),
          file \in (IF op \in {"post", "put"} /\ k \in ImageKinds THEN BOOLEAN ELSE {FALSE}),
          body \in (IF op \in {"post", "put"} THEN Bodies(k) ELSE {NoBody}) :
         reqs' = [reqs EXCEPT ![r] =
                    [Idle EXCEPT !.op = op, !.kind = k, !.id = id, !.file = file,
                                 !.body = body, !.pc = StartPlan(op, k, file)]]
  /\ UNCHANGED <<docs, assets, nextId, nextAsset, destroyFailed>>

\* await Model.findById(req.params.id)
Find(r) ==
  LET q == reqs[r] IN
  /\ NoneDone
  /\ q.pc # <<>> /\ Head(q.pc) = "find"
  /\ \E ok \in BOOLEAN :
       LET d == findById(q.kind, q.id) IN
       reqs' = [reqs EXCEPT ![r] =
                  IF ok THEN OnFind(Logged(q, Event("find", EmptyStr, TRUE, d # Null)), d)
                  ELSE Respond(Logged(q, Event("find", EmptyStr, FALSE, FALSE)), 500, DbErr)]
  /\ UNCHANGED <<docs, assets, nextId, nextAsset, destroyFailed>>

\* await deleteFromCloudinary(doc.imagePublicId)
Destroy(r) ==
  LET q == reqs[r] IN
  /\ NoneDone
  /\ q.pc # <<>> /\ Head(q.pc) = "destroy"
  /\ \E ok \in BOOLEAN :
       LET t == DestroyTarget(q)
           ql == Logged(q, Event("destroy", t, ok, t \in assets)) IN
       /\ assets' = IF ok THEN assets \ {t} ELSE assets
       /\ reqs' = [reqs EXCEPT ![r] = IF ok THEN Advance(ql) ELSE OnDestroyError(ql)]
       /\ destroyFailed' = (destroyFailed \/ ~ok)
  /\ UNCHANGED <<docs, nextId, nextAsset>>

\* await uploadToCloudinary(req.file.buffer, folder)
Upload(r) ==
  LET q == reqs[r] IN
  /\ NoneDone
  /\ q.pc # <<>> /\ Head(q.pc) = "upload"
  /\ \/ /\ nextAsset <= MaxAssets
        /\ LET a == <<nextAsset>> IN
           /\ assets' = assets \cup {a}
           /\ reqs' = [reqs EXCEPT ![r] =
                         Advance([Logged(q, Event("upload", a, TRUE, TRUE))
                                    EXCEPT !.imageData = [url |-> Url(a), publicId |-> a]])]
        /\ nextAsset' = nextAsset + 1
     \/ /\ reqs' = [reqs EXCEPT ![r] =
                      OnUploadError(Logged(q, Event("upload", EmptyStr, FALSE, FALSE)))]
        /\ UNCHANGED <<assets, nextAsset>>
  /\ UNCHANGED <<docs, nextId, destroyFailed>>

\* await new Model({...}).save()
Save(r) ==
  LET q == reqs[r] IN
  /\ NoneDone
  /\ q.pc # <<>> /\ Head(q.pc) = "save"
  /\ \/ /\ nextId <= MaxDocs
        /\ LET d == Fields(q) IN
           /\ docs' = [docs EXCEPT ![q.kind] = (nextId :> d) @@ @]
           /\ reqs' = [reqs EXCEPT ![r] =
                         Respond(Logged(q, Event("save", EmptyStr, TRUE, TRUE)), 201, d)]
        /\ nextId' = nextId + 1
     \/ /\ reqs' = [reqs EXCEPT ![r] =
                      Respond(Logged(q, Event("save", EmptyStr, FALSE, FALSE)), 500, DbErr)]
        /\ UNCHANGED <<docs, nextId>>
  /\ UNCHANGED <<assets, nextAsset, destroyFailed>>

\* await Model.findByIdAndUpdate(req.params.id, {...}, { new: true })
Update(r) ==
  LET q == reqs[r] IN
  /\ NoneDone
  /\ q.pc # <<>> /\ Head(q.pc) = "update"
  /\ \/ /\ q.id \in DOMAIN docs[q.kind]
        /\ LET d == Fields(q) @@ docs[q.kind][q.id] IN
           /\ docs' = [docs EXCEPT ![q.kind][q.id] = d]
           /\ reqs' = [reqs EXCEPT ![r] =
                         Respond(Logged(q, Event("update", Persisted(q.kind, d), TRUE, TRUE)), 200, d)]
     \/ /\ q.id \notin DOMAIN docs[q.kind]
        /\ reqs' = [reqs EXCEPT ![r] =
                      LET ql == Logged(q, Event("update", EmptyStr, TRUE, FALSE)) IN
                      IF q.kind \in ImageKinds THEN Respond(ql, 200, Null)
                      ELSE Respond(ql, 404, NotFoundMsg(q.kind))]
        /\ UNCHANGED docs
     \/ /\ reqs' = [reqs EXCEPT ![r] =
                      Respond(Logged(q, Event("update", EmptyStr, FALSE, FALSE)), 500, DbErr)]
        /\ UNCHANGED docs
  /\ UNCHANGED <<assets, nextId, nextAsset, destroyFailed>>

\* await Model.findByIdAndDelete(req.params.id)
Remove(r) ==
  LET q == reqs[r] IN
  /\ NoneDone
  /\ q.pc # <<>> /\ Head(q.pc) = "remove"
  /\ \/ /\ q.id \in DOMAIN docs[q.kind]
        /\ docs' = [docs EXCEPT ![q.kind] =
                      [i \in (DOMAIN @) \ {q.id} |-> @[i]]]
        /\ reqs' = [reqs EXCEPT ![r] =
                      Respond(Logged(q, Event("remove", EmptyStr, TRUE, TRUE)),
                              200, DeletedMsg(q.kind))]
     \/ /\ q.id \notin DOMAIN docs[q.kind]
        /\ reqs' = [reqs EXCEPT ![r] =
                      LET ql == Logged(q, Event("remove", EmptyStr, TRUE, FALSE)) IN
                      IF q.kind \in ImageKinds THEN Respond(ql, 200, DeletedMsg(q.kind))
                      ELSE Respond(ql, 404, NotFoundMsg(q.kind))]
        /\ UNCHANGED docs
     \/ /\ reqs' = [reqs EXCEPT ![r] =
                      Respond(Logged(q, Event("remove", EmptyStr, FALSE, FALSE)), 500, DbErr)]
        /\ UNCHANGED docs
  /\ UNCHANGED <<assets, nextId, nextAsset, destroyFailed>>

\* The response was sent; the connection serves its next request.
Finish(r) ==
  /\ reqs[r].status # 0
  /\ reqs' = [reqs EXCEPT ![r] = Idle]
  /\ UNCHANGED <<docs, assets, nextId, nextAsset, destroyFailed>>

Next ==
  \E r \in Reqs :
    \/ Start(r)
    \/ Find(r)
    \/ Destroy(r)
    \/ Upload(r)
    \/ Save(r)
    \/ Update(r)
    \/ Remove(r)
    \/ Finish(r)

Spec == Init /\ [][Next]_vars

\* ---- properties ---------------------------------------------------------
Events(q, ev) == {i \in 1..Len(q.log) : q.log[i].ev = ev}

InFlight(q) == q.op # "none" /\ q.status = 0

\* The ids uploads have returned so far.
Uploaded == {<<i>> : i \in 1..(nextAsset - 1)}

\* The asset id the handler read from the document it found ('' if none).
Old(q) == IF q.doc = Null THEN EmptyStr ELSE q.doc[IdField(q.kind)]

AtRest(k, id) == \A r \in Reqs : ~(InFlight(reqs[r]) /\ reqs[r].kind = k /\ reqs[r].id = id)

\* C1: a document at rest (no request on it in flight) with a non-empty asset
\* id names an asset that exists in the Asset Store.
LiveReference ==
  \A k \in ImageKinds : \A id \in DOMAIN docs[k] :
    (AtRest(k, id) /\ Truthy(docs[k][id][IdField(k)])) => docs[k][id][IdField(k)] \in assets

\* C2: when no asset-store delete has failed and every request has run to
\* completion, every asset in the Asset Store is named by some document.
NoOrphanedAsset ==
  (~destroyFailed /\ \A r \in Reqs : ~InFlight(reqs[r]))
    => \A a \in assets : \E k \in ImageKinds : \E id \in DOMAIN docs[k] :
         docs[k][id][IdField(k)] = a

\* C3: every stored image-bearing document has both image fields, the URL is
\* '' exactly when the asset id is '', and a create without a file answers
\* with both fields equal to ''.
ImageFieldsPaired ==
  /\ \A k \in ImageKinds : \A id \in DOMAIN docs[k] :
       /\ {ImgField(k), IdField(k)} \subseteq DOMAIN docs[k][id]
       /\ (docs[k][id][ImgField(k)] = EmptyStr) <=> (docs[k][id][IdField(k)] = EmptyStr)
  /\ \A r \in Reqs :
       LET q == reqs[r] IN
       (q.op = "post" /\ q.kind \in ImageKinds /\ ~q.file /\ q.status = 201)
         => /\ {ImgField(q.kind), IdField(q.kind)} \subseteq DOMAIN q.resp
            /\ q.resp[ImgField(q.kind)] = EmptyStr
            /\ q.resp[IdField(q.kind)] = EmptyStr

ImageFieldsPairedWitness ==
  \E r \in Reqs :
    LET q == reqs[r] IN
    /\ q.op = "put" /\ q.file /\ q.status = 200 /\ q.resp # Null
    /\ q.doc # Null /\ Old(q) = EmptyStr /\ q.doc[ImgField(q.kind)] = EmptyStr
    /\ Truthy(q.resp[ImgField(q.kind)]) /\ Truthy(q.resp[IdField(q.kind)])
    /\ docs[q.kind][q.id] = q.resp

\* C4: an update without a file makes no Asset Store call, and its document
\* write leaves the image URL and asset id as they were stored immediately
\* before the write, also when other requests overlap.
UpdateWithoutFileKeepsImage ==
  [][\A r \in Reqs :
       LET q == reqs[r] IN
       (q.op = "put" /\ q.kind \in ImageKinds /\ ~q.file /\ InFlight(q)
          /\ q.pc = <<"update">> /\ reqs'[r].status = 200 /\ q.id \in DOMAIN docs[q.kind])
         => /\ docs'[q.kind][q.id][ImgField(q.kind)] = docs[q.kind][q.id][ImgField(q.kind)]
            /\ docs'[q.kind][q.id][IdField(q.kind)] = docs[q.kind][q.id][IdField(q.kind)]
            /\ Events(reqs'[r], "upload") \cup Events(reqs'[r], "destroy") = {}]_vars

\* C5: in an update with a file on a document with asset id A # '', the
\* delete of A precedes the upload, the upload precedes the document write,
\* and the id persisted and returned is the uploaded one, which differs from
\* A; in a delete-by-id the asset delete precedes the document removal.
SideEffectOrder ==
  \A r \in Reqs :
    LET q == reqs[r]
        A == Old(q) IN
    (q.kind \in ImageKinds /\ Truthy(A)) =>
      /\ (q.op = "put" /\ q.file) =>
           /\ \A i \in Events(q, "upload") :
                \E j \in 1..(i - 1) : q.log[j].ev = "destroy" /\ q.log[j].arg = A
           /\ \A i \in Events(q, "update") :
                \E j \in 1..(i - 1) :
                  /\ q.log[j].ev = "upload" /\ q.log[j].ok
                  /\ q.log[i].hit => (q.log[i].arg = q.log[j].arg /\ q.log[i].arg # A)
           /\ (q.status = 200 /\ q.resp # Null) =>
                \E j \in Events(q, "upload") :
                  q.log[j].ok /\ q.resp[IdField(q.kind)] = q.log[j].arg
                    /\ q.resp[IdField(q.kind)] # A
      /\ (q.op = "delete") =>
           \A i \in Events(q, "remove") :
             \E j \in 1..(i - 1) : q.log[j].ev = "destroy" /\ q.log[j].arg = A

SideEffectOrderWitness ==
  \E r \in Reqs :
    LET q == reqs[r] IN
    /\ q.op = "put" /\ q.file /\ Truthy(Old(q))
    /\ q.status = 200 /\ q.resp # Null
    /\ Len(q.log) = 4

\* C6 as stated: a successfully completed update with a file, or delete-by-id,
\* on a document holding asset id A # '' leaves A absent from the Asset Store.
ReleasedAssetRemoved ==
  \A r \in Reqs :
    LET q == reqs[r] IN
    (q.kind \in ImageKinds /\ q.status = 200 /\ Truthy(Old(q))
       /\ ((q.op = "put" /\ q.file) \/ q.op = "delete"))
      => Old(q) \notin assets

\* C6 as amended: the same, provided the request's asset-store delete call
\* did not fail (a failed delete is swallowed and leaves A in place).
ReleasedAssetRemovedUnlessDestroyFailed ==
  \A r \in Reqs :
    LET q == reqs[r] IN
    (q.kind \in ImageKinds /\ q.status = 200 /\ Truthy(Old(q))
       /\ ((q.op = "put" /\ q.file) \/ q.op = "delete")
       /\ \A i \in Events(q, "destroy") : q.log[i].ok)
      => Old(q) \notin assets

ReleasedAssetRemovedWitness ==
  \E r \in Reqs :
    LET q == reqs[r] IN
    /\ q.op = "delete" /\ q.status = 200 /\ Truthy(Old(q))
    /\ \E i \in Events(q, "destroy") : q.log[i].ok /\ q.log[i].hit
    /\ \E i \in Events(q, "remove") : q.log[i].hit

\* C7: a failed upload ends the request with 500 and the error message, and
\* the request makes no Document Store write.
UploadFailureFatal ==
  \A r \in Reqs :
    LET q == reqs[r] IN
    (\E i \in Events(q, "upload") : ~q.log[i].ok) =>
      /\ q.status = 500 /\ q.resp = UploadErr /\ q.pc = <<>>
      /\ Events(q, "save") \cup Events(q, "update") \cup Events(q, "remove") = {}

UploadFailureFatalWitness ==
  \E r \in Reqs :
    LET q == reqs[r] IN
    /\ q.op = "put" /\ q.status = 500 /\ Truthy(Old(q))
    /\ \E i \in Events(q, "upload") : ~q.log[i].ok
    /\ q.id \in DOMAIN docs[q.kind] /\ docs[q.kind][q.id] = q.doc

\* C8: the outcome of an asset delete, failure included, does not change how
\* the request goes on: a delete-by-id goes on to remove the document and,
\* when that call succeeds, answers 200 'deleted' with the document gone; an
\* update with a file goes on to the upload and then to the document write.
DestroyFailureSwallowed ==
  \A r \in Reqs :
    LET q == reqs[r] IN
    \A i \in Events(q, "destroy") :
      /\ q.status # 0 => Len(q.log) > i
      /\ (q.status = 0 /\ Len(q.log) = i) =>
           Head(q.pc) = (IF q.op = "put" THEN "upload" ELSE "remove")
      /\ Len(q.log) > i =>
           q.log[i + 1].ev = (IF q.op = "put" THEN "upload" ELSE "remove")
      /\ (q.op = "delete" /\ Len(q.log) > i /\ q.log[i + 1].ok) =>
           /\ q.status = 200 /\ q.resp = DeletedMsg(q.kind)
           /\ q.id \notin DOMAIN docs[q.kind]
      /\ (q.op = "put" /\ Len(q.log) > i /\ q.log[i + 1].ok /\ q.status # 0) =>
           Len(q.log) = i + 2 /\ q.log[i + 2].ev = "update"

DestroyFailureSwallowedWitness ==
  \E r \in Reqs :
    LET q == reqs[r] IN
    /\ q.op = "delete" /\ q.status = 200
    /\ \E i \in Events(q, "destroy") : ~q.log[i].ok
    /\ Old(q) \in assets

\* C9: a get, update or delete whose id names no document when the handler
\* resolves it answers 404 with the entity's message, makes no Asset Store
\* call and no other Document Store call, and the step changes no document.
NotFoundFirst ==
  /\ [](\A r \in Reqs :
          LET q == reqs[r] IN
          (q.op \in {"get", "put", "delete"} /\ Len(q.log) >= 1
             /\ q.log[1].ok /\ ~q.log[1].hit)
            => /\ q.status = 404 /\ q.resp = NotFoundMsg(q.kind)
               /\ Len(q.log) = 1)
  /\ [][\A r \in Reqs :
          (reqs[r].status = 0 /\ reqs'[r].status = 404)
            => docs' = docs /\ assets' = assets]_vars

NotFoundFirstWitness ==
  \E r \in Reqs :
    LET q == reqs[r] IN
    /\ q.op = "put" /\ q.file /\ q.status = 404
    /\ nextId > 1

\* C10: every Asset Store delete targets a non-empty id that an upload
\* returned and that the handler read from the document it found; stored
\* image fields come from uploads, never from the request body; a document
\* with an empty asset id causes no delete call; offer and admin requests
\* make no Asset Store call.
DestroyOnlyOwnUploads ==
  /\ \A r \in Reqs :
       LET q == reqs[r] IN
       /\ \A i \in Events(q, "destroy") :
            /\ Truthy(q.log[i].arg) /\ q.log[i].arg \in Uploaded
            /\ q.kind \in ImageKinds /\ q.doc # Null /\ q.log[i].arg = Old(q)
       /\ ~Truthy(Old(q)) => Events(q, "destroy") = {}
       /\ q.kind \notin ImageKinds => Events(q, "destroy") \cup Events(q, "upload") = {}
  /\ \A k \in ImageKinds : \A id \in DOMAIN docs[k] :
       LET d == docs[k][id] IN
       /\ d[IdField(k)] \in Uploaded \cup {EmptyStr}
       /\ d[ImgField(k)] = (IF Truthy(d[IdField(k)]) THEN Url(d[IdField(k)]) ELSE EmptyStr)

DestroyOnlyOwnUploadsWitness ==
  \E r \in Reqs :
    LET q == reqs[r] IN
    /\ q.op = "put" /\ q.file /\ q.status = 200 /\ q.resp # Null
    /\ IdField(q.kind) \in DOMAIN q.body
    /\ Events(q, "destroy") # {}
    /\ q.resp[IdField(q.kind)] # q.body[IdField(q.kind)]

====
